---------------------------- MODULE Spec2Model ----------------------------
(***************************************************************************)
(* A model of allensdk.brain_observatory.ecephys.write_nwb (__main__.py):  *)
(* the array readers, the channel table builder, the ragged column encoder *)
(* and the session assembler write_ecephys_nwb.                            *)
(*                                                                         *)
(* Conventions.                                                            *)
(*  - A Python dict is a sequence of <<key, value>> pairs with distinct    *)
(*    keys, in insertion order.                                            *)
(*  - A numpy array is a record [shape, data]: data is the flat row-major  *)
(*    buffer, shape the tuple of dimensions (<<>> for a 0-d array).        *)
(*  - A call's outcome is a record [status |-> "ok", value |-> v] or       *)
(*    [status |-> "raised", error |-> <exception class>, message |-> m].   *)
(*  - An optional value is None or Some(v).                                *)
(*  - Times are integers (ticks); only their order matters to the code.    *)
(***************************************************************************)
EXTENDS Integers, Sequences, FiniteSets, TLC

VARIABLES
    \* ---- write_ecephys_nwb: program position and locals ----
    pc,                  \* position in write_ecephys_nwb
    probes,              \* the `probes` argument (a sequence of probe records)
    i,                   \* index of the next probe of the running loop
    channel_tables,      \* list of per-probe channel tables
    unit_tables,         \* list of per-probe unit tables
    spike_times,         \* dict: global unit id -> sorted spike times
    mean_waveforms,      \* dict: global unit id -> waveform array
    probe_lfp_file_map,  \* dict: probe id -> LFP sub-file path
    electrodes_table,    \* nwbfile.electrodes (rows), None until built
    units_table,         \* nwbfile.units (ids and ragged columns), None until built
    probe_lfp_ios,       \* list of sub-file read handles [pid, path, open]
    lfp_links,           \* calls made to add_link_lfp_to_nwbfile
    probe_outputs,       \* list of {id, nwb_path}
    io,                  \* master file write handle: "none", "open", "closed"
    files,               \* the file system: sub-files written, master file state
    result,              \* the returned value, None until returned
    error,               \* the exception that left write_ecephys_nwb, None if none
    \* ---- a single call of one of the pure functions ----
    call,                \* the function called and its arguments
    ret                  \* its outcome

sessionVars == <<pc, probes, i, channel_tables, unit_tables, spike_times,
                 mean_waveforms, probe_lfp_file_map, electrodes_table,
                 units_table, probe_lfp_ios, lfp_links, probe_outputs, io,
                 files, result, error>>
callVars == <<call, ret>>
vars == <<pc, probes, i, channel_tables, unit_tables, spike_times,
          mean_waveforms, probe_lfp_file_map, electrodes_table,
          units_table, probe_lfp_ios, lfp_links, probe_outputs, io,
          files, result, error, call, ret>>

(***************************************************************************)
(* Generic helpers                                                         *)
(***************************************************************************)
\* Python's None, and a value that is not None.  An optional argument or a
\* not-yet-assigned local is None or Some(v).
None == [some |-> FALSE]

Some(v) == [some |-> TRUE, value |-> v]

Ok(v) == [status |-> "ok", value |-> v]

Raised(e, m) == [status |-> "raised", error |-> e, message |-> m]

Pending == [status |-> "pending"]

Range(s) == {s[k] : k \in 1..Len(s)}

RECURSIVE SeqSum(_)
SeqSum(s) == IF s = <<>> THEN 0 ELSE Head(s) + SeqSum(Tail(s))

RECURSIVE SeqProd(_)
SeqProd(s) == IF s = <<>> THEN 1 ELSE Head(s) * SeqProd(Tail(s))

RECURSIVE Flatten(_)
Flatten(ss) == IF ss = <<>> THEN <<>> ELSE Head(ss) \o Flatten(Tail(ss))

\* All sequences over S of length 0..n
SeqsUpTo(S, n) == UNION {[1..k -> S] : k \in 0..n}

\* All orderings of the sequence s
Permutations_(s) ==
    {[k \in 1..Len(s) |-> s[p[k]]] :
        p \in {q \in [1..Len(s) -> 1..Len(s)] : Range(q) = 1..Len(s)}}

(***************************************************************************)
(* Python dict: insertion-ordered sequence of <<key, value>> pairs         *)
(***************************************************************************)
EmptyDict == <<>>

DictKeys(d) == [k \in 1..Len(d) |-> d[k][1]]

DictHas(d, key) == \E k \in 1..Len(d) : d[k][1] = key

DictGet(d, key) == d[CHOOSE k \in 1..Len(d) : d[k][1] = key][2]

\* d[key] = value: an existing key keeps its position, a new one is appended
DictSet(d, key, value) ==
    IF DictHas(d, key)
    THEN [k \in 1..Len(d) |-> IF d[k][1] = key THEN <<key, value>> ELSE d[k]]
    ELSE Append(d, <<key, value>>)

\* d.update(e)
RECURSIVE DictUpdate(_, _)
DictUpdate(d, e) ==
    IF e = <<>> THEN d
    ELSE DictUpdate(DictSet(d, Head(e)[1], Head(e)[2]), Tail(e))

(***************************************************************************)
(* numpy                                                                   *)
(***************************************************************************)
Array1(s) == [shape |-> <<Len(s)>>, data |-> s]

\* np.squeeze: every axis of length 1 is removed; the flat buffer is unchanged
Squeeze(a) == [shape |-> SelectSeq(a.shape, LAMBDA d : d # 1), data |-> a.data]

\* insert x (an index into keys) into the index list s, after every index
\* whose key is <= keys[x]
RECURSIVE InsertByKey(_, _, _)
InsertByKey(s, x, keys) ==
    IF s = <<>> THEN <<x>>
    ELSE IF keys[Head(s)] <= keys[x]
         THEN <<Head(s)>> \o InsertByKey(Tail(s), x, keys)
         ELSE <<x>> \o s

\* np.argsort(keys) on a 1-d array, as 1-based positions.  Ties are kept in
\* input order; the reader sorts each group afterwards, so the order of ties
\* does not reach its result.
RECURSIVE ArgSortUpTo(_, _)
ArgSortUpTo(keys, n) ==
    IF n = 0 THEN <<>> ELSE InsertByKey(ArgSortUpTo(keys, n - 1), n, keys)

ArgSort(keys) == ArgSortUpTo(keys, Len(keys))

\* np.sort on a 1-d array
Sort(s) == LET o == ArgSort(s) IN [k \in 1..Len(s) |-> s[o[k]]]

IsSorted(s) == \A k \in 1..(Len(s) - 1) : s[k] <= s[k + 1]


(***************************************************************************)
(* read_spike_times_to_dictionary (lines 95-137)                           *)
(***************************************************************************)
\* line 121: the 0-based group boundaries of the sorted unit array u
Changes(u) ==
    <<0>> \o SelectSeq([k \in 1..(Len(u) - 1) |-> k],
                       LAMBDA k : u[k] # u[k + 1])
          \o <<Len(u)>>

\* lines 124-135: the loop body for the groups jj..last, on the sorted
\* arrays u (units) and t (times)
RECURSIVE SpikeGroups(_, _, _, _, _, _)
SpikeGroups(jj, changes, u, t, map, output_times) ==
    IF jj > Len(changes) - 1 THEN Ok(output_times)
    ELSE LET low == changes[jj]
             high == changes[jj + 1]
         IN IF low + 1 > Len(u)
            THEN Raised("IndexError", "index out of bounds")
            ELSE LET local_unit == u[low + 1]
                     unit_times == Sort(SubSeq(t, low + 1, high))
                 IN IF map.some
                    THEN IF ~DictHas(map.value, local_unit)
                         THEN SpikeGroups(jj + 1, changes, u, t, map,
                                          output_times)
                         ELSE SpikeGroups(jj + 1, changes, u, t, map,
                                  DictSet(output_times,
                                          DictGet(map.value, local_unit),
                                          unit_times))
                    ELSE SpikeGroups(jj + 1, changes, u, t, map,
                                     DictSet(output_times, local_unit,
                                             unit_times))

\* The two .npy files hold 1-d arrays, given here as sequences.  np.squeeze
\* turns an array of exactly one element into a 0-d array, which
\* spike_units[sort_order] cannot index.
read_spike_times_to_dictionary(times_file, units_file, map) ==
    LET st == Squeeze(Array1(times_file))
        su == Squeeze(Array1(units_file))
    IN IF su.shape = <<>>
       THEN Raised("IndexError", "too many indices for array")
       ELSE LET sort_order == ArgSort(su.data)
            IN IF st.shape = <<>>
                  \/ \E k \in 1..Len(sort_order) : sort_order[k] > Len(st.data)
               THEN Raised("IndexError", "index out of bounds")
               ELSE LET u == [k \in 1..Len(sort_order) |-> su.data[sort_order[k]]]
                        t == [k \in 1..Len(sort_order) |-> st.data[sort_order[k]]]
                    IN SpikeGroups(1, Changes(u), u, t, map, EmptyDict)

(***************************************************************************)
(* read_waveforms_to_dictionary (lines 140-174)                            *)
(***************************************************************************)
\* line 162: np.split(waveforms, waveforms.shape[0], axis=0)[j], j 0-based:
\* the j-th block along axis 0, which keeps that axis with length 1
SplitChunk(w, j) ==
    LET m == SeqProd(Tail(w.shape))
    IN [shape |-> <<1>> \o Tail(w.shape),
        data |-> SubSeq(w.data, j * m + 1, (j + 1) * m)]

\* line 170: waveform[:, k] on a block of shape (1, d2, rest...): index k of
\* the block's second axis, the first axis kept
IndexSecondAxis(waveform, k) ==
    LET rest == SubSeq(waveform.shape, 3, Len(waveform.shape))
        r == SeqProd(rest)
    IN [shape |-> <<1>> \o rest,
        data |-> SubSeq(waveform.data, k * r + 1, (k + 1) * r)]

\* lines 162-172: the loop body for the blocks j..n-1
RECURSIVE WaveformLoop(_, _, _, _, _, _)
WaveformLoop(j, n, w, map, peak_channel_map, output_waveforms) ==
    IF j >= n THEN Ok(output_waveforms)
    ELSE IF map.some /\ ~DictHas(map.value, j)
    THEN WaveformLoop(j + 1, n, w, map, peak_channel_map, output_waveforms)
    ELSE LET unit_id == IF map.some THEN DictGet(map.value, j) ELSE j
             waveform == SplitChunk(w, j)
         IN IF ~peak_channel_map.some
            THEN WaveformLoop(j + 1, n, w, map, peak_channel_map,
                     DictSet(output_waveforms, unit_id, Squeeze(waveform)))
            ELSE IF ~DictHas(peak_channel_map.value, unit_id)
            THEN Raised("KeyError", "peak_channel_map")
            ELSE IF Len(waveform.shape) < 2
            THEN Raised("IndexError", "too many indices for array")
            ELSE IF DictGet(peak_channel_map.value, unit_id) >= waveform.shape[2]
            THEN Raised("IndexError", "index out of bounds")
            ELSE WaveformLoop(j + 1, n, w, map, peak_channel_map,
                     DictSet(output_waveforms, unit_id,
                         Squeeze(IndexSecondAxis(waveform,
                             DictGet(peak_channel_map.value, unit_id)))))

\* The .npy file holds an array of shape (units, samples, channels).
\* np.squeeze removes every axis of length 1 before the split along axis 0.
read_waveforms_to_dictionary(waveforms_file, map, peak_channel_map) ==
    LET waveforms == Squeeze(waveforms_file)
    IN IF waveforms.shape = <<>>
       THEN Raised("IndexError", "tuple index out of range")
       ELSE IF waveforms.shape[1] = 0
       THEN Raised("ZeroDivisionError", "integer division or modulo by zero")
       ELSE WaveformLoop(0, waveforms.shape[1], waveforms, map,
                         peak_channel_map, EmptyDict)

(***************************************************************************)
(* pandas.DataFrame: [index_name, index, columns, data].  index_name is    *)
(* None or Some(name), index the row labels, columns the column names in   *)
(* order, data the rows, each a function from column name to value.        *)
(***************************************************************************)
NRows(df) == Len(df.data)

HasColumn(df, name) == \E k \in 1..Len(df.columns) : df.columns[k] = name

\* df.set_index(keys=key, drop=True): a new frame
SetIndex(df, key) ==
    [index_name |-> Some(key),
     index |-> [r \in 1..NRows(df) |-> df.data[r][key]],
     columns |-> SelectSeq(df.columns, LAMBDA c : c # key),
     data |-> [r \in 1..NRows(df) |->
                  [c \in (DOMAIN df.data[r]) \ {key} |-> df.data[r][c]]]]

\* df[name] = value, a scalar broadcast to every row
SetColumn(df, name, value) ==
    [df EXCEPT
        !.columns = IF HasColumn(df, name) THEN @ ELSE Append(@, name),
        !.data = [r \in 1..NRows(df) |->
                     [c \in (DOMAIN df.data[r]) \cup {name} |->
                         IF c = name THEN value ELSE df.data[r][c]]]]

\* the distinct elements of s in order of first appearance
RECURSIVE Dedup(_)
Dedup(s) ==
    IF s = <<>> THEN <<>>
    ELSE LET rest == Dedup(SubSeq(s, 1, Len(s) - 1))
             x == s[Len(s)]
         IN IF x \in Range(rest) THEN rest ELSE Append(rest, x)

\* pd.concat(frames).fillna(''): the rows of the frames one after the other,
\* row labels kept (duplicates included), columns in order of first
\* appearance, a value a frame lacks filled with ''
ConcatFillna(frames) ==
    LET cols == Dedup(Flatten([k \in 1..Len(frames) |-> frames[k].columns]))
        rows == Flatten([k \in 1..Len(frames) |-> frames[k].data])
    IN [index_name |-> IF frames = <<>> THEN None ELSE frames[1].index_name,
        index |-> Flatten([k \in 1..Len(frames) |-> frames[k].index]),
        columns |-> cols,
        data |-> [r \in 1..Len(rows) |->
                     [c \in Range(cols) |->
                         IF c \in DOMAIN rows[r] THEN rows[r][c] ELSE ""]]]

(***************************************************************************)
(* prepare_probewise_channel_table (lines 243-275)                         *)
(***************************************************************************)
\* line 270
ConflictMessage == "found both column and index named \"id\""

\* line 272, an f-string: its literal texts with the two values it
\* interpolates between them, the frame's index (labels and name) and its
\* columns
MissingMessage(channel_table) ==
    <<"unable to recognize ids in this channel table. index: ",
      [labels |-> channel_table.index, name |-> channel_table.index_name],
      ", columns: ",
      channel_table.columns>>

\* line 265: channel_table is a copy, so the caller's frame is not the one
\* that line 274 assigns the group column to.  The frame line 274 would
\* write to without the copy is the caller's own when no set_index made a
\* new one.
ChannelsArgumentAfter(channels, electrode_group) == channels

\* Variant of line 267 that takes the "id" column whatever the index is
\* named.
prepare_ignoring_index_name(channels, electrode_group) ==
    LET channel_table == channels
    IN IF HasColumn(channel_table, "id")
       THEN Ok(SetColumn(SetIndex(channel_table, "id"), "group",
                         electrode_group))
       ELSE IF channel_table.index_name # Some("id")
       THEN Raised("ValueError", MissingMessage(channel_table))
       ELSE Ok(SetColumn(channel_table, "group", electrode_group))

prepare_probewise_channel_table(channels, electrode_group) ==
    LET channel_table == channels
        has_column == HasColumn(channel_table, "id")
        index_is_id == channel_table.index_name = Some("id")
    IN IF has_column /\ ~index_is_id
       THEN Ok(SetColumn(SetIndex(channel_table, "id"), "group",
                         electrode_group))
       ELSE IF has_column /\ index_is_id
       THEN Raised("ValueError", ConflictMessage)
       ELSE IF ~index_is_id
       THEN Raised("ValueError", MissingMessage(channel_table))
       ELSE Ok(SetColumn(channel_table, "group", electrode_group))

(***************************************************************************)
(* dict_to_indexed_array (allensdk.brain_observatory, not in the sources   *)
(* at hand; after section 4.2 of the specification) and                    *)
(* add_ragged_data_to_dynamic_table (lines 278-301)                        *)
(***************************************************************************)
\* For each key of `order`, in order, the group dc[key] is appended to the
\* values and the running total of lengths to the index.  A key of `order`
\* that dc lacks is an error or an empty group: the specification leaves
\* the choice open, so the caller's environment decides (missing_as_empty).
RECURSIVE dict_to_indexed_array(_, _, _)
dict_to_indexed_array(dc, order, missing_as_empty) ==
    IF order = <<>> THEN Ok([idx |-> <<>>, values |-> <<>>])
    ELSE LET n == Len(order)
             key == order[n]
             before == dict_to_indexed_array(dc, SubSeq(order, 1, n - 1),
                                             missing_as_empty)
         IN IF before.status # "ok" THEN before
            ELSE IF ~DictHas(dc, key) /\ ~missing_as_empty
            THEN Raised("KeyError", "key of the table not in the mapping")
            ELSE LET group == IF DictHas(dc, key) THEN DictGet(dc, key)
                              ELSE <<>>
                     counter == IF n = 1 THEN 0
                                ELSE before.value.idx[n - 1]
                 IN Ok([idx |-> Append(before.value.idx,
                                       counter + Len(group)),
                        values |-> before.value.values \o group])

\* Variant of line 298 without table.id (order=None): the encoder follows
\* the mapping's own key order.
RaggedOrderFromMapping(table, data) == DictKeys(data)

\* line 298: the second argument of dict_to_indexed_array, table.id
RaggedOrder(table, data) == table.id

\* A dynamic table is [id, columns]: the row ids in row order and the
\* columns added so far, each [name, data, index].
add_ragged_data_to_dynamic_table(table, data, column_name, missing_as_empty) ==
    LET r == dict_to_indexed_array(data, RaggedOrder(table, data),
                                   missing_as_empty)
    IN IF r.status # "ok" THEN r
       ELSE Ok([table EXCEPT !.columns =
                   Append(@, [name |-> column_name,
                              data |-> r.value.values,
                              index |-> r.value.idx])])

(***************************************************************************)
(* Bounds of the inputs                                                    *)
(***************************************************************************)
MaxSpikes == 3        \* longest spike array
MaxTime == 2          \* spike times are 0..MaxTime
MaxLocalUnit == 1     \* spike units are 0..MaxLocalUnit
MaxUnits == 2         \* first dimension of a waveform array
MaxSamples == 2       \* second dimension of a waveform array
MaxChannels == 3      \* third dimension of a waveform array

\* the elements of a finite set of integers in ascending order
RECURSIVE SetToSeq(_)
SetToSeq(S) ==
    IF S = {} THEN <<>>
    ELSE LET m == CHOOSE x \in S : \A y \in S : x <= y
         IN <<m>> \o SetToSeq(S \ {m})

\* the global id given to the unit at local position u
GlobalId(u) == 100 + u

\* the local-to-global maps over subsets of the local units 0..n
LocalToGlobalMaps(n) ==
    {[k \in 1..Len(SetToSeq(D)) |->
         <<SetToSeq(D)[k], GlobalId(SetToSeq(D)[k])>>] : D \in SUBSET (0..n)}

Optional(S) == {None} \cup {Some(v) : v \in S}

\* every dict with exactly the keys of the sequence ks (in that order) and
\* values in V
DictsOver(ks, V) ==
    {[k \in 1..Len(ks) |-> <<ks[k], f[k]>>] : f \in [1..Len(ks) -> V]}

(***************************************************************************)
(* The session is not running while a single function is called.           *)
(***************************************************************************)
SessionIdle ==
    /\ pc = "idle"
    /\ probes = <<>>
    /\ i = 0
    /\ channel_tables = <<>>
    /\ unit_tables = <<>>
    /\ spike_times = EmptyDict
    /\ mean_waveforms = EmptyDict
    /\ probe_lfp_file_map = EmptyDict
    /\ electrodes_table = None
    /\ units_table = None
    /\ probe_lfp_ios = <<>>
    /\ lfp_links = <<>>
    /\ probe_outputs = <<>>
    /\ io = "none"
    /\ files = [subfiles |-> {}, partial |-> {}, master |-> "absent"]
    /\ result = None
    /\ error = None

(***************************************************************************)
(* The array readers, each called once on inputs within the bounds         *)
(***************************************************************************)
SpikeCalls(max_len) ==
    {[fn |-> "read_spike_times_to_dictionary",
      spike_times |-> t, spike_units |-> u,
      local_to_global_unit_map |-> m] :
        <<t, u>> \in UNION {[1..n -> 0..MaxTime] \X [1..n -> 0..MaxLocalUnit] :
                               n \in 0..max_len},
        m \in Optional(LocalToGlobalMaps(MaxLocalUnit))}

\* the element at (u, s, c), 0-based, of every waveform array of the model
WaveformValue(u, s, c) == 100 * u + 10 * s + c

\* the (units, samples, channels) array with those elements, row-major
WaveformArray(U, S, C) ==
    [shape |-> <<U, S, C>>,
     data |-> [k \in 1..(U * S * C) |->
                  WaveformValue((k - 1) \div (S * C),
                                ((k - 1) \div C) % S,
                                (k - 1) % C)]]

\* the unit ids a waveform call can produce: local positions or global ids
WaveformKeys(U, m) ==
    IF m.some THEN SetToSeq({GlobalId(u) : u \in 0..(U - 1)})
    ELSE SetToSeq(0..(U - 1))

WaveformCalls(max_units) ==
    UNION {
        {[fn |-> "read_waveforms_to_dictionary",
          waveforms |-> WaveformArray(U, S, C),
          local_to_global_unit_map |-> m,
          peak_channel_map |-> p] :
            p \in Optional(DictsOver(WaveformKeys(U, m), 0..(C - 1)))} :
        <<U, S, C>> \in (1..max_units) \X (1..MaxSamples) \X (1..MaxChannels),
        m \in Optional(LocalToGlobalMaps(max_units - 1))}

InitReaders ==
    /\ SessionIdle
    /\ call \in SpikeCalls(MaxSpikes) \cup WaveformCalls(MaxUnits)
    /\ ret = Pending

CallReadSpikeTimes ==
    /\ call.fn = "read_spike_times_to_dictionary"
    /\ ret = Pending
    /\ ret' = read_spike_times_to_dictionary(call.spike_times,
                  call.spike_units, call.local_to_global_unit_map)
    /\ UNCHANGED <<call, sessionVars>>

CallReadWaveforms ==
    /\ call.fn = "read_waveforms_to_dictionary"
    /\ ret = Pending
    /\ ret' = read_waveforms_to_dictionary(call.waveforms,
                  call.local_to_global_unit_map, call.peak_channel_map)
    /\ UNCHANGED <<call, sessionVars>>

NextReaders == CallReadSpikeTimes \/ CallReadWaveforms

SpecReaders == InitReaders /\ [][NextReaders]_vars

(***************************************************************************)
(* Properties of the array readers                                         *)
(***************************************************************************)
Count(s, v) == Cardinality({k \in 1..Len(s) : s[k] = v})

\* s and t hold the same elements the same number of times
IsPermutationOf(s, t) ==
    /\ Len(s) = Len(t)
    /\ \A v \in Range(s) \cup Range(t) : Count(s, v) = Count(t, v)

\* the times of the spikes assigned to unit x, in input order
TimesOf(times, units, x) ==
    LET at == SelectSeq([k \in 1..Len(units) |-> k], LAMBDA k : units[k] = x)
    IN [k \in 1..Len(at) |-> times[at[k]]]

SpikeCallDone ==
    call.fn = "read_spike_times_to_dictionary" /\ ret # Pending

WaveformCallDone ==
    call.fn = "read_waveforms_to_dictionary" /\ ret # Pending

\* the groups of a returned dict, in ascending key order, one after the other
GroupsAscending(d) ==
    LET ks == SetToSeq(Range(DictKeys(d)))
    IN Flatten([k \in 1..Len(ks) |-> DictGet(d, ks[k])])

\* C5: for spike_times and spike_units of equal length (0 and 1 included),
\* without a map the reader returns one group per distinct unit value,
\* keyed by the unit, holding exactly that unit's times sorted ascending,
\* and the groups in ascending key order are a permutation of the input
\* times; with a map the group of a mapped local unit is stored under its
\* global id.
C5_SpikeGroupsPartitionInput ==
    SpikeCallDone =>
        /\ ret.status = "ok"
        /\ LET present == Range(call.spike_units)
               m == call.local_to_global_unit_map
           IN IF ~m.some
              THEN /\ Range(DictKeys(ret.value)) = present
                   /\ Len(ret.value) = Cardinality(present)
                   /\ \A x \in present :
                        /\ IsSorted(DictGet(ret.value, x))
                        /\ IsPermutationOf(DictGet(ret.value, x),
                               TimesOf(call.spike_times, call.spike_units, x))
                   /\ IsPermutationOf(GroupsAscending(ret.value),
                                      call.spike_times)
              ELSE \A x \in present :
                      DictHas(m.value, x) =>
                        /\ DictHas(ret.value, DictGet(m.value, x))
                        /\ DictGet(ret.value, DictGet(m.value, x)) =
                             Sort(TimesOf(call.spike_times,
                                          call.spike_units, x))

\* the local unit ids a call's data holds: the unit values of the spikes, or
\* the positions along the first axis of the waveform array
LocalUnitsOfCall ==
    IF call.fn = "read_spike_times_to_dictionary"
    THEN Range(call.spike_units)
    ELSE 0..(call.waveforms.shape[1] - 1)

\* C6: with a local-to-global map supplied, a local unit id absent from the
\* map adds no entry and raises nothing, and every local unit id of the data
\* that the map holds has its entry under its global id.
C6_UnmappedUnitsDroppedWithoutError ==
    ((SpikeCallDone \/ (WaveformCallDone /\ ~call.peak_channel_map.some))
        /\ call.local_to_global_unit_map.some) =>
        /\ ret.status = "ok"
        /\ Range(DictKeys(ret.value)) =
             {DictGet(call.local_to_global_unit_map.value, x) :
                x \in {y \in LocalUnitsOfCall :
                         DictHas(call.local_to_global_unit_map.value, y)}}

\* the unit id under which the unit at local position j is returned
OutputUnitId(j) ==
    IF call.local_to_global_unit_map.some
    THEN DictGet(call.local_to_global_unit_map.value, j)
    ELSE j

\* the local positions of the waveform array the call retains
RetainedUnits ==
    {j \in 0..(call.waveforms.shape[1] - 1) :
        call.local_to_global_unit_map.some =>
            DictHas(call.local_to_global_unit_map.value, j)}

\* the samples of unit j on channel c: waveforms[j, :, c]
SamplesOnChannel(w, j, c) ==
    [shape |-> <<w.shape[2]>>,
     data |-> [s \in 1..w.shape[2] |->
                  w.data[j * w.shape[2] * w.shape[3]
                         + (s - 1) * w.shape[3] + c + 1]]]

\* the sample x channel slice of unit j: waveforms[j, :, :]
UnitSlice(w, j) ==
    [shape |-> <<w.shape[2], w.shape[3]>>,
     data |-> SubSeq(w.data, j * w.shape[2] * w.shape[3] + 1,
                     (j + 1) * w.shape[2] * w.shape[3])]

\* C9: for a (unit, sample, channel) array, with a peak-channel map the
\* reader returns for each retained unit the vector over all samples at the
\* unit's peak channel (length = number of samples); without one, the full
\* sample x channel slice of the unit.  Stated for the arrays np.squeeze
\* leaves alone (every dimension at least 2).
C9_PeakChannelSelectsSamples ==
    (WaveformCallDone /\ \A d \in 1..3 : call.waveforms.shape[d] >= 2) =>
        /\ ret.status = "ok"
        /\ \A j \in RetainedUnits :
            /\ DictHas(ret.value, OutputUnitId(j))
            /\ DictGet(ret.value, OutputUnitId(j)) =
                 IF call.peak_channel_map.some
                 THEN SamplesOnChannel(call.waveforms, j,
                          DictGet(call.peak_channel_map.value,
                                  OutputUnitId(j)))
                 ELSE UnitSlice(call.waveforms, j)

(***************************************************************************)
(* prepare_probewise_channel_table, called once on a frame within bounds   *)
(***************************************************************************)
MaxChannelRows == 2   \* most rows of a channel table
MaxChannelId == 2     \* channel ids are 1..MaxChannelId

ProbeIds == {10, 11}

\* pynwb.ecephys.ElectrodeGroup(name=str(probe_id), ...) (lines 230-235)
ElectrodeGroup(probe_id) == [name |-> probe_id]

\* A channel frame whose rows carry the channel ids `ids`: as a column when
\* id_column, as the index when index_name is Some("id"); otherwise the index
\* is the default 0..n-1.
ChannelFrame(ids, probe_id, index_name, id_column) ==
    [index_name |-> index_name,
     index |-> IF index_name = Some("id") THEN ids
               ELSE [r \in 1..Len(ids) |-> r - 1],
     columns |-> IF id_column THEN <<"id", "probe_id", "local_index">>
                 ELSE <<"probe_id", "local_index">>,
     data |-> [r \in 1..Len(ids) |->
                  IF id_column
                  THEN [id |-> ids[r], probe_id |-> probe_id,
                        local_index |-> r - 1]
                  ELSE [probe_id |-> probe_id, local_index |-> r - 1]]]

ChannelCalls(max_rows) ==
    {[fn |-> "prepare_probewise_channel_table",
      channels |-> ChannelFrame(ids, p, n, c),
      ids |-> ids,
      electrode_group |-> ElectrodeGroup(g)] :
        ids \in SeqsUpTo(1..MaxChannelId, max_rows),
        p \in ProbeIds, g \in ProbeIds,
        n \in {None, Some("id"), Some("channel")},
        c \in BOOLEAN}

InitChannels ==
    /\ SessionIdle
    /\ call \in ChannelCalls(MaxChannelRows)
    /\ ret = Pending

\* ret also records the caller's frame as the call left it
CallPrepareChannelTable ==
    /\ call.fn = "prepare_probewise_channel_table"
    /\ ret = Pending
    /\ ret' = [outcome |-> prepare_probewise_channel_table(call.channels,
                               call.electrode_group),
               channels_after |-> ChannelsArgumentAfter(call.channels,
                                      call.electrode_group)]
    /\ UNCHANGED <<call, sessionVars>>

NextChannels == CallPrepareChannelTable

SpecChannels == InitChannels /\ [][NextChannels]_vars

ChannelCallDone ==
    call.fn = "prepare_probewise_channel_table" /\ ret # Pending

HasBothIds ==
    HasColumn(call.channels, "id") /\ call.channels.index_name = Some("id")

HasNoIds ==
    ~HasColumn(call.channels, "id") /\ call.channels.index_name # Some("id")

\* the table is indexed by the channel ids, every row is tagged with the
\* electrode group, the other columns are as given, and the caller's frame
\* is as it was
PreparedTableIsRight ==
    /\ ret.outcome.status = "ok"
    /\ ret.outcome.value.index_name = Some("id")
    /\ ret.outcome.value.index = call.ids
    /\ ~HasColumn(ret.outcome.value, "id")
    /\ HasColumn(ret.outcome.value, "group")
    /\ \A r \in 1..Len(call.ids) :
        /\ ret.outcome.value.data[r].group = call.electrode_group
        /\ ret.outcome.value.data[r].probe_id = call.channels.data[r].probe_id
        /\ ret.outcome.value.data[r].local_index =
             call.channels.data[r].local_index
    /\ ret.channels_after = call.channels

\* C7 as stated: a ConflictingIdentifierError when the input has both an
\* "id" column and an index named "id", a MissingIdentifierError when it has
\* neither, and success with the prepared table when it has exactly one.
C7_IdentifierErrorsByClass ==
    ChannelCallDone =>
        IF HasBothIds
        THEN /\ ret.outcome.status = "raised"
             /\ ret.outcome.error = "ConflictingIdentifierError"
        ELSE IF HasNoIds
        THEN /\ ret.outcome.status = "raised"
             /\ ret.outcome.error = "MissingIdentifierError"
        ELSE PreparedTableIsRight

\* C7 as amended: both failures are a ValueError, told apart by the message
\* alone ('found both column and index named "id"' against a message that
\* starts with 'unable to recognize ids in this channel table' and goes on
\* with the table's index and columns); with exactly one of the two the
\* call succeeds with the prepared table and leaves the input unmodified.
C7_IdentifierErrorsAreValueErrors ==
    ChannelCallDone =>
        IF HasBothIds
        THEN ret.outcome = Raised("ValueError", ConflictMessage)
        ELSE IF HasNoIds
        THEN /\ ret.outcome =
                    Raised("ValueError", MissingMessage(call.channels))
             /\ ret.outcome.message[1] # ConflictMessage
        ELSE PreparedTableIsRight

\* a table with rows, an "id" column and an index named "id" was refused
C7_Witness ==
    /\ ChannelCallDone
    /\ HasBothIds
    /\ Len(call.ids) = MaxChannelRows
    /\ ret.outcome.status = "raised"

(***************************************************************************)
(* add_ragged_data_to_dynamic_table, called once on a table and a mapping  *)
(* within bounds                                                           *)
(***************************************************************************)
MaxRowKey == 2        \* row keys are 1..MaxRowKey
MaxRows == 2          \* most rows of the table
MaxGroupLen == 2      \* longest sequence of the mapping

\* the sequence of length n the mapping holds for `key`
GroupOf(key, n) == [q \in 1..n |-> 10 * key + q]

DistinctKeySeqs(max_key) ==
    {ks \in SeqsUpTo(1..max_key, max_key) :
        \A a, b \in 1..Len(ks) : a # b => ks[a] # ks[b]}

\* every mapping over distinct keys, in every insertion order
RaggedMappings(max_key) ==
    UNION {{[k \in 1..Len(ks) |-> <<ks[k], GroupOf(ks[k], f[k])>>] :
               f \in [1..Len(ks) -> 0..MaxGroupLen]} : ks \in DistinctKeySeqs(max_key)}

RaggedCalls(max_rows) ==
    {[fn |-> "add_ragged_data_to_dynamic_table",
      table |-> [id |-> ids, columns |-> <<>>],
      data |-> d,
      column_name |-> "spike_times"] :
        ids \in SeqsUpTo(1..MaxRowKey, max_rows),
        d \in RaggedMappings(MaxRowKey)}

InitRagged ==
    /\ SessionIdle
    /\ call \in RaggedCalls(MaxRows)
    /\ ret = Pending

CallAddRaggedData ==
    /\ call.fn = "add_ragged_data_to_dynamic_table"
    /\ ret = Pending
    /\ \E missing_as_empty \in BOOLEAN :
         ret' = add_ragged_data_to_dynamic_table(call.table, call.data,
                    call.column_name, missing_as_empty)
    /\ UNCHANGED <<call, sessionVars>>

NextRagged == CallAddRaggedData

SpecRagged == InitRagged /\ [][NextRagged]_vars

RaggedCallDone ==
    call.fn = "add_ragged_data_to_dynamic_table" /\ ret # Pending

\* every row of the table has its key in the mapping
RowsCovered == \A r \in 1..Len(call.table.id) : DictHas(call.data, call.table.id[r])

\* the column the call added
AddedColumn == ret.value.columns[Len(ret.value.columns)]

\* values[index[r-1] : index[r]], index[-1] read as 0
RowSlice(col, r) ==
    SubSeq(col.data, (IF r = 1 THEN 0 ELSE col.index[r - 1]) + 1, col.index[r])

\* C8: for a mapping from row key to sequence (empty sequences included) and
\* a table with fixed row order, the added column (values, index) decodes
\* row by row to the sequence of the row's key, index[r] is the cumulative
\* length of the first r groups, and every insertion order of the mapping
\* gives the same column.
C8_RaggedRoundTrip ==
    (RaggedCallDone /\ RowsCovered) =>
        /\ ret.status = "ok"
        /\ ret.value.id = call.table.id
        /\ AddedColumn.name = call.column_name
        /\ Len(AddedColumn.index) = Len(call.table.id)
        /\ \A r \in 1..Len(call.table.id) :
            /\ RowSlice(AddedColumn, r) = DictGet(call.data, call.table.id[r])
            /\ AddedColumn.index[r] =
                 SeqSum([k \in 1..r |->
                            Len(DictGet(call.data, call.table.id[k]))])
        /\ \A d \in Permutations_(call.data), b \in BOOLEAN :
             add_ragged_data_to_dynamic_table(call.table, d,
                 call.column_name, b) = ret

\* a table of two rows whose order is not the mapping's, one group empty and
\* one not, was encoded
C8_Witness ==
    /\ RaggedCallDone
    /\ RowsCovered
    /\ Len(call.table.id) = 2
    /\ call.table.id # DictKeys(call.data)
    /\ call.table.id[1] # call.table.id[2]
    /\ DictGet(call.data, call.table.id[1]) # <<>>
    /\ DictGet(call.data, call.table.id[2]) = <<>>
    /\ ret.status = "ok"

(***************************************************************************)
(* write_ecephys_nwb (lines 380-487): the inputs                           *)
(***************************************************************************)
MaxProbes == 2        \* most probes of a session

\* the output_path argument, and probe k's probe['lfp']['output_path']
OutputPath == [file |-> "session", n |-> 0]

LfpPath(k) == [file |-> "lfp", n |-> k]

\* the global ids of the two channels (local indices 0 and 1) of the probe at
\* position k
ChannelIdsOfProbe(k) == <<2 * k - 1, 2 * k>>

\* the files of the probe at position k of the session: three spikes, two
\* on local unit 0 and one on local unit 1, and a 2 x 2 x 2 waveform array,
\* all values distinct from every other probe's
SpikeTimesFile(k) == <<10 * k + 5, 10 * k + 1, 10 * k + 3>>

SpikeUnitsFile(k) == <<0, 1, 0>>

WaveformsFile(k) ==
    [shape |-> <<2, 2, 2>>,
     data |-> [q \in 1..8 |-> 1000 * k + WaveformArray(2, 2, 2).data[q]]]

\* the global unit ids of a session, and the LFP channel subsets of a probe
\* (local index 2 is no channel of the probe)
SessionUnitIds == {100, 101}

LfpChannelSubsets == {<<1, 0>>, <<2>>}

\* the probe at position k: its id, whether its channels carry an "id"
\* column, the global id of its one unit (at local index 0), and its LFP
\* channel subset are free
Probe(k, id, id_column, unit_id, lfp_channels) ==
    [id |-> id,
     channels |-> ChannelFrame(ChannelIdsOfProbe(k), id, None, id_column),
     units |-> <<[id |-> unit_id, local_index |-> 0]>>,
     spike_times_file |-> SpikeTimesFile(k),
     spike_units_file |-> SpikeUnitsFile(k),
     waveforms_file |-> WaveformsFile(k),
     lfp |-> [input_channels |-> lfp_channels, output_path |-> LfpPath(k)]]

\* the free parts of a probe
ProbeChoices ==
    ProbeIds \X BOOLEAN \X SessionUnitIds \X LfpChannelSubsets

\* the session whose probe at position k is made of choice[k]
Session(choice) ==
    [k \in 1..Len(choice) |->
        Probe(k, choice[k][1], choice[k][2], choice[k][3], choice[k][4])]

(***************************************************************************)
(* write_ecephys_nwb: helpers                                              *)
(***************************************************************************)
\* pd.DataFrame(probe['units']) (line 411)
UnitFrame(units) ==
    [index_name |-> None,
     index |-> [r \in 1..Len(units) |-> r - 1],
     columns |-> <<"id", "local_index">>,
     data |-> units]

\* line 413: {unit['local_index']: unit['id'] for unit in probe['units']}
RECURSIVE LocalToGlobalUnitMap(_)
LocalToGlobalUnitMap(units) ==
    IF units = <<>> THEN EmptyDict
    ELSE DictSet(LocalToGlobalUnitMap(SubSeq(units, 1, Len(units) - 1)),
                 units[Len(units)].local_index, units[Len(units)].id)

\* what lines 410-420 compute for a probe
ProbeChannelTable(probe) ==
    prepare_probewise_channel_table(probe.channels, ElectrodeGroup(probe.id))

ProbeSpikeTimes(probe) ==
    read_spike_times_to_dictionary(probe.spike_times_file,
        probe.spike_units_file, Some(LocalToGlobalUnitMap(probe.units)))

ProbeWaveforms(probe) ==
    read_waveforms_to_dictionary(probe.waveforms_file,
        Some(LocalToGlobalUnitMap(probe.units)), None)

\* the ways lines 407-430 can raise for a probe: the line that raises and
\* the exception.  A computation that raises does so on every run, so the
\* statements after it are not reached; a file operation may raise OSError
\* or not.  Line 410 reads no file; lines 415 and 418 load arrays; the
\* sub-file writer (line 423) loads its inputs and opens the sub-file (lines
\* 321-335), then writes it (line 336).
ProbeFailures(probe) ==
    IF ProbeChannelTable(probe).status = "raised"
    THEN {[line |-> 410, class |-> ProbeChannelTable(probe).error]}
    ELSE {[line |-> 415, class |-> "OSError"]} \cup
         (IF ProbeSpikeTimes(probe).status = "raised"
          THEN {[line |-> 415, class |-> ProbeSpikeTimes(probe).error]}
          ELSE {[line |-> 418, class |-> "OSError"]} \cup
               (IF ProbeWaveforms(probe).status = "raised"
                THEN {[line |-> 418,
                       class |-> ProbeWaveforms(probe).error]}
                ELSE {[line |-> 321, class |-> "OSError"],
                      [line |-> 336, class |-> "OSError"]}))

ProbeComputes(probe) ==
    /\ ProbeChannelTable(probe).status = "ok"
    /\ ProbeSpikeTimes(probe).status = "ok"
    /\ ProbeWaveforms(probe).status = "ok"

\* pynwb Units.from_dataframe / ElectrodeTable.from_dataframe (lines 433,
\* 435): the row ids are the frame's index, one column per frame column
FromDataframe(df) ==
    [id |-> df.index,
     columns |-> [c \in 1..Len(df.columns) |->
                     [name |-> df.columns[c],
                      data |-> [r \in 1..NRows(df) |-> df.data[r][df.columns[c]]],
                      index |-> <<>>]]]

\* the rows of an array along its first axis, as np.concatenate and len see
\* a group of the waveform mapping
ArrayRows(a) ==
    LET m == SeqProd(Tail(a.shape))
    IN [r \in 1..a.shape[1] |-> SubSeq(a.data, (r - 1) * m + 1, r * m)]

RowsOfArrays(d) == [k \in 1..Len(d) |-> <<d[k][1], ArrayRows(d[k][2])>>]

\* lines 455-458: (probe_id, local_index) -> 0-based row position; a later
\* row with the same key replaces the value
RECURSIVE ChannelIndexMapUpTo(_, _)
ChannelIndexMapUpTo(df, n) ==
    IF n = 0 THEN EmptyDict
    ELSE DictSet(ChannelIndexMapUpTo(df, n - 1),
                 <<df.data[n].probe_id, df.data[n].local_index>>, n - 1)

channel_index_map(df) == ChannelIndexMapUpTo(df, NRows(df))

\* Variant of line 468 that takes a probe-local channel index for a row of
\* the master table.
EtIndicesFromLocalIndex(probe, df) == Ok(probe.lfp.input_channels)

\* line 468: the rows of the probe's LFP channels, or a KeyError
EtIndices(probe, df) ==
    IF \E c \in 1..Len(probe.lfp.input_channels) :
          ~DictHas(channel_index_map(df),
                   <<probe.id, probe.lfp.input_channels[c]>>)
    THEN Raised("KeyError", "channel_index_map")
    ELSE Ok([c \in 1..Len(probe.lfp.input_channels) |->
                DictGet(channel_index_map(df),
                        <<probe.id, probe.lfp.input_channels[c]>>)])

\* the position of probe id pid's handle in probe_lfp_ios
HandleOf(ios, pid) == CHOOSE h \in 1..Len(ios) : ios[h].pid = pid

\* Variant of lines 466-470 that scopes the handle to the linking call and
\* closes it on the way out.
HandlesClosedAfterLink(ios, pid) ==
    [h \in 1..Len(ios) |->
        IF ios[h].pid = pid THEN [ios[h] EXCEPT !.open = FALSE] ELSE ios[h]]

\* lines 466-470: linking reads through the handle and leaves it open
HandlesAfterLink(ios, pid) == ios

\* Variant of lines 471-474 that reports the session file's path.
ProbeOutputWithSessionPath(probe) ==
    [id |-> probe.id, nwb_path |-> OutputPath]

\* lines 471-474
ProbeOutput(probe) == [id |-> probe.id, nwb_path |-> probe.lfp.output_path]

\* Variant in which a failing probe is skipped and the loop goes on.
SkipFailedProbe(k) == [pc |-> "probes", i |-> k + 1]

\* an exception raised in the probe loop (lines 406-430) leaves the function
AfterProbeFailure(k) == [pc |-> "failed", i |-> k]

Failure(class, at, k) == Some([class |-> class, at |-> at, probe |-> k])

(***************************************************************************)
(* write_ecephys_nwb: the steps                                            *)
(***************************************************************************)
Init ==
    /\ pc = "start"
    /\ \E n \in 0..MaxProbes :
         \E choice \in [1..n -> ProbeChoices] : probes = Session(choice)
    /\ i = 1
    /\ channel_tables = <<>>
    /\ unit_tables = <<>>
    /\ spike_times = EmptyDict
    /\ mean_waveforms = EmptyDict
    /\ probe_lfp_file_map = EmptyDict
    /\ electrodes_table = None
    /\ units_table = None
    /\ probe_lfp_ios = <<>>
    /\ lfp_links = <<>>
    /\ probe_outputs = <<>>
    /\ io = "none"
    /\ files = [subfiles |-> {}, partial |-> {}, master |-> "absent"]
    /\ result = None
    /\ error = None
    /\ call = [fn |-> "write_ecephys_nwb"]
    /\ ret = Pending

\* an exception leaves write_ecephys_nwb: nothing catches it, nothing is
\* released on the way out
Fail(class, at, k) ==
    /\ pc' = "failed"
    /\ error' = Failure(class, at, k)

\* lines 395-397
ReadStimulusTable ==
    /\ pc = "start"
    /\ pc' = "probes"
    /\ UNCHANGED <<probes, i, channel_tables, unit_tables, spike_times,
                   mean_waveforms, probe_lfp_file_map, electrodes_table,
                   units_table, probe_lfp_ios, lfp_links, probe_outputs, io,
                   files, result, error, call, ret>>

ReadStimulusTableFails ==
    /\ pc = "start"
    /\ Fail("IOError", "stimulus", 0)
    /\ UNCHANGED <<probes, i, channel_tables, unit_tables, spike_times,
                   mean_waveforms, probe_lfp_file_map, electrodes_table,
                   units_table, probe_lfp_ios, lfp_links, probe_outputs, io,
                   files, result, call, ret>>

\* lines 406-430, one probe
ProcessProbe ==
    /\ pc = "probes"
    /\ i <= Len(probes)
    /\ ProbeComputes(probes[i])
    /\ channel_tables' = Append(channel_tables,
                                ProbeChannelTable(probes[i]).value)
    /\ unit_tables' = Append(unit_tables, UnitFrame(probes[i].units))
    /\ spike_times' = DictUpdate(spike_times, ProbeSpikeTimes(probes[i]).value)
    /\ mean_waveforms' = DictUpdate(mean_waveforms,
                                    ProbeWaveforms(probes[i]).value)
    /\ probe_lfp_file_map' = DictSet(probe_lfp_file_map, probes[i].id,
                                     probes[i].lfp.output_path)
    /\ files' = [files EXCEPT !.subfiles = @ \cup {probes[i].lfp.output_path}]
    /\ i' = i + 1
    /\ UNCHANGED <<pc, probes, electrodes_table, units_table, probe_lfp_ios,
                   lfp_links, probe_outputs, io, result, error, call, ret>>

\* lines 406-430, one probe, left by an exception: the statements before
\* the raising one have had their effect (lines 410-411 the two tables, 415
\* the spike times, 418-422 the waveforms and the sub-file path), and a
\* write that raises (line 336) leaves a partly written sub-file
ProcessProbeFails ==
    /\ pc = "probes"
    /\ i <= Len(probes)
    /\ \E f \in ProbeFailures(probes[i]) :
         /\ error' = Failure(f.class, "probe", i)
         /\ channel_tables' =
                IF f.line = 410 THEN channel_tables
                ELSE Append(channel_tables,
                            ProbeChannelTable(probes[i]).value)
         /\ unit_tables' =
                IF f.line = 410 THEN unit_tables
                ELSE Append(unit_tables, UnitFrame(probes[i].units))
         /\ spike_times' =
                IF f.line \in {410, 415} THEN spike_times
                ELSE DictUpdate(spike_times, ProbeSpikeTimes(probes[i]).value)
         /\ mean_waveforms' =
                IF f.line \in {410, 415, 418} THEN mean_waveforms
                ELSE DictUpdate(mean_waveforms,
                                ProbeWaveforms(probes[i]).value)
         /\ probe_lfp_file_map' =
                IF f.line \in {410, 415, 418} THEN probe_lfp_file_map
                ELSE DictSet(probe_lfp_file_map, probes[i].id,
                             probes[i].lfp.output_path)
         /\ files' =
                IF f.line = 336
                THEN [files EXCEPT
                         !.partial = @ \cup {probes[i].lfp.output_path}]
                ELSE files
    /\ pc' = AfterProbeFailure(i).pc
    /\ i' = AfterProbeFailure(i).i
    /\ UNCHANGED <<probes, electrodes_table, units_table, probe_lfp_ios,
                   lfp_links, probe_outputs, io, result, call, ret>>

\* lines 432-435; pd.concat of no frames raises ValueError
BuildTables ==
    /\ pc = "probes"
    /\ i > Len(probes)
    /\ channel_tables # <<>>
    /\ electrodes_table' = Some(ConcatFillna(channel_tables))
    /\ units_table' = Some(FromDataframe(
                               SetIndex(ConcatFillna(unit_tables), "id")))
    /\ pc' = "ragged"
    /\ UNCHANGED <<probes, i, channel_tables, unit_tables, spike_times,
                   mean_waveforms, probe_lfp_file_map, probe_lfp_ios,
                   lfp_links, probe_outputs, io, files, result, error, call,
                   ret>>

BuildTablesFails ==
    /\ pc = "probes"
    /\ i > Len(probes)
    /\ channel_tables = <<>>
    /\ Fail("ValueError", "tables", 0)
    /\ UNCHANGED <<probes, i, channel_tables, unit_tables, spike_times,
                   mean_waveforms, probe_lfp_file_map, electrodes_table,
                   units_table, probe_lfp_ios, lfp_links, probe_outputs, io,
                   files, result, call, ret>>

\* lines 437-449: both ragged columns
AddRaggedColumns ==
    /\ pc = "ragged"
    /\ \E missing_as_empty \in BOOLEAN :
        LET first == add_ragged_data_to_dynamic_table(units_table.value,
                         spike_times, "spike_times", missing_as_empty)
            second == add_ragged_data_to_dynamic_table(first.value,
                          RowsOfArrays(mean_waveforms), "waveform_mean",
                          missing_as_empty)
        IN IF first.status = "ok" /\ second.status = "ok"
           THEN /\ units_table' = Some(second.value)
                /\ pc' = "running"
                /\ error' = error
           ELSE /\ units_table' = IF first.status = "ok"
                                  THEN Some(first.value) ELSE units_table
                /\ Fail("KeyError", "ragged", 0)
    /\ UNCHANGED <<probes, i, channel_tables, unit_tables, spike_times,
                   mean_waveforms, probe_lfp_file_map, electrodes_table,
                   probe_lfp_ios, lfp_links, probe_outputs, io, files,
                   result, call, ret>>

\* lines 451-453
ReadRunningSpeed ==
    /\ pc = "running"
    /\ pc' = "open_ios"
    /\ UNCHANGED <<probes, i, channel_tables, unit_tables, spike_times,
                   mean_waveforms, probe_lfp_file_map, electrodes_table,
                   units_table, probe_lfp_ios, lfp_links, probe_outputs, io,
                   files, result, error, call, ret>>

ReadRunningSpeedFails ==
    /\ pc = "running"
    /\ Fail("OSError", "running_speed", 0)
    /\ UNCHANGED <<probes, i, channel_tables, unit_tables, spike_times,
                   mean_waveforms, probe_lfp_file_map, electrodes_table,
                   units_table, probe_lfp_ios, lfp_links, probe_outputs, io,
                   files, result, call, ret>>

\* line 459, one item of probe_lfp_file_map: the next handle is opened
OpenLfpIo ==
    /\ pc = "open_ios"
    /\ LET item == probe_lfp_file_map[Len(probe_lfp_ios) + 1]
       IN probe_lfp_ios' = Append(probe_lfp_ios,
              [pid |-> item[1], path |-> item[2], open |-> TRUE])
    /\ IF Len(probe_lfp_ios) + 1 = Len(probe_lfp_file_map)
       THEN pc' = "link" /\ i' = 1
       ELSE pc' = pc /\ i' = i
    /\ UNCHANGED <<probes, channel_tables, unit_tables, spike_times,
                   mean_waveforms, probe_lfp_file_map, electrodes_table,
                   units_table, lfp_links, probe_outputs, io, files, result,
                   error, call, ret>>

\* line 459: opening the next sub-file raises; the handles opened so far
\* stay as they are
OpenLfpIoFails ==
    /\ pc = "open_ios"
    /\ Fail("OSError", "open_ios", Len(probe_lfp_ios) + 1)
    /\ UNCHANGED <<probes, i, channel_tables, unit_tables, spike_times,
                   mean_waveforms, probe_lfp_file_map, electrodes_table,
                   units_table, probe_lfp_ios, lfp_links, probe_outputs, io,
                   files, result, call, ret>>

\* lines 462-474, one probe: add_link_lfp_to_nwbfile against the probe's
\* handle, then the probe's output record
LinkProbe ==
    /\ pc = "link"
    /\ i <= Len(probes)
    /\ EtIndices(probes[i], electrodes_table.value).status = "ok"
    /\ lfp_links' = Append(lfp_links,
           [probe_id |-> probes[i].id,
            data_file_io |-> HandleOf(probe_lfp_ios, probes[i].id),
            handle_open |->
                probe_lfp_ios[HandleOf(probe_lfp_ios, probes[i].id)].open,
            electrode_table_indices |->
                EtIndices(probes[i], electrodes_table.value).value])
    /\ probe_lfp_ios' = HandlesAfterLink(probe_lfp_ios, probes[i].id)
    /\ probe_outputs' = Append(probe_outputs, ProbeOutput(probes[i]))
    /\ i' = i + 1
    /\ pc' = IF i = Len(probes) THEN "open_master" ELSE pc
    /\ UNCHANGED <<probes, channel_tables, unit_tables, spike_times,
                   mean_waveforms, probe_lfp_file_map, electrodes_table,
                   units_table, io, files, result, error, call, ret>>

\* line 468 raises KeyError, or reading the sub-file (line 365) raises
LinkProbeFails ==
    /\ pc = "link"
    /\ i <= Len(probes)
    /\ \E class \in {"OSError"} \cup
           (IF EtIndices(probes[i], electrodes_table.value).status = "raised"
            THEN {"KeyError"} ELSE {}) :
         Fail(class, "link", i)
    /\ UNCHANGED <<probes, i, channel_tables, unit_tables, spike_times,
                   mean_waveforms, probe_lfp_file_map, electrodes_table,
                   units_table, probe_lfp_ios, lfp_links, probe_outputs, io,
                   files, result, call, ret>>

\* lines 476-477: mode 'w' creates or truncates the file
OpenMaster ==
    /\ pc = "open_master"
    /\ io' = "open"
    /\ files' = [files EXCEPT !.master = "partial"]
    /\ pc' = "write_master"
    /\ UNCHANGED <<probes, i, channel_tables, unit_tables, spike_times,
                   mean_waveforms, probe_lfp_file_map, electrodes_table,
                   units_table, probe_lfp_ios, lfp_links, probe_outputs,
                   result, error, call, ret>>

OpenMasterFails ==
    /\ pc = "open_master"
    /\ Fail("OSError", "open_master", 0)
    /\ UNCHANGED <<probes, i, channel_tables, unit_tables, spike_times,
                   mean_waveforms, probe_lfp_file_map, electrodes_table,
                   units_table, probe_lfp_ios, lfp_links, probe_outputs, io,
                   files, result, call, ret>>

\* line 478
WriteMaster ==
    /\ pc = "write_master"
    /\ files' = [files EXCEPT !.master = "written"]
    /\ pc' = "close_master"
    /\ UNCHANGED <<probes, i, channel_tables, unit_tables, spike_times,
                   mean_waveforms, probe_lfp_file_map, electrodes_table,
                   units_table, probe_lfp_ios, lfp_links, probe_outputs, io,
                   result, error, call, ret>>

\* line 478 raises: the file stays partial and io stays open
WriteMasterFails ==
    /\ pc = "write_master"
    /\ Fail("OSError", "write_master", 0)
    /\ UNCHANGED <<probes, i, channel_tables, unit_tables, spike_times,
                   mean_waveforms, probe_lfp_file_map, electrodes_table,
                   units_table, probe_lfp_ios, lfp_links, probe_outputs, io,
                   files, result, call, ret>>

\* line 479
CloseMaster ==
    /\ pc = "close_master"
    /\ io' = "closed"
    /\ pc' = "close_ios"
    /\ i' = 1
    /\ UNCHANGED <<probes, channel_tables, unit_tables, spike_times,
                   mean_waveforms, probe_lfp_file_map, electrodes_table,
                   units_table, probe_lfp_ios, lfp_links, probe_outputs,
                   files, result, error, call, ret>>

\* lines 481-482, one handle
CloseLfpIo ==
    /\ pc = "close_ios"
    /\ i <= Len(probe_lfp_ios)
    /\ probe_lfp_ios' = [probe_lfp_ios EXCEPT ![i].open = FALSE]
    /\ i' = i + 1
    /\ UNCHANGED <<pc, probes, channel_tables, unit_tables, spike_times,
                   mean_waveforms, probe_lfp_file_map, electrodes_table,
                   units_table, lfp_links, probe_outputs, io, files, result,
                   error, call, ret>>

\* lines 484-487
Return ==
    /\ pc = "close_ios"
    /\ i > Len(probe_lfp_ios)
    /\ result' = Some([nwb_path |-> OutputPath,
                       probe_outputs |-> probe_outputs])
    /\ pc' = "done"
    /\ UNCHANGED <<probes, i, channel_tables, unit_tables, spike_times,
                   mean_waveforms, probe_lfp_file_map, electrodes_table,
                   units_table, probe_lfp_ios, lfp_links, probe_outputs, io,
                   files, error, call, ret>>

Next ==
    \/ ReadStimulusTable \/ ReadStimulusTableFails
    \/ ProcessProbe \/ ProcessProbeFails
    \/ BuildTables \/ BuildTablesFails
    \/ AddRaggedColumns
    \/ ReadRunningSpeed \/ ReadRunningSpeedFails
    \/ OpenLfpIo \/ OpenLfpIoFails
    \/ LinkProbe \/ LinkProbeFails
    \/ OpenMaster \/ OpenMasterFails
    \/ WriteMaster \/ WriteMasterFails
    \/ CloseMaster
    \/ CloseLfpIo
    \/ Return

Spec == Init /\ [][Next]_vars

(***************************************************************************)
(* Properties of write_ecephys_nwb                                         *)
(***************************************************************************)
AllHandlesOpen(ios) == \A h \in 1..Len(ios) : ios[h].open

AllHandlesClosed(ios) == \A h \in 1..Len(ios) : ~ios[h].open

\* every sub-file of probe_lfp_file_map has its handle
AllHandlesOpened == Len(probe_lfp_ios) = Len(probe_lfp_file_map)

\* C1: the master electrode table is built, and no longer changes, before
\* every call of add_link_lfp_to_nwbfile; every sub-file handle that was
\* opened is open at each linking call and throughout the write of the
\* master file; a handle is closed only once the master file is written.
C1_TableBeforeLinksHandlesOpenThroughWrite ==
    [][/\ Len(lfp_links') > Len(lfp_links) =>
            /\ electrodes_table.some
            /\ electrodes_table' = electrodes_table
            /\ AllHandlesOpened
            /\ AllHandlesOpen(probe_lfp_ios)
            /\ AllHandlesOpen(probe_lfp_ios')
       /\ files'.master # files.master =>
            /\ electrodes_table.some
            /\ AllHandlesOpened
            /\ AllHandlesOpen(probe_lfp_ios)
            /\ AllHandlesOpen(probe_lfp_ios')
       /\ \A h \in 1..Len(probe_lfp_ios) :
            (probe_lfp_ios[h].open /\ ~probe_lfp_ios'[h].open) =>
                files.master = "written"
      ]_vars

\* a session of MaxProbes probes was linked and written, and its handles
\* were closed
C1_Witness ==
    /\ pc = "done"
    /\ Len(lfp_links) = MaxProbes
    /\ Len(probe_lfp_ios) = MaxProbes
    /\ files.master = "written"
    /\ AllHandlesClosed(probe_lfp_ios)

\* C2: when write_ecephys_nwb has ended, by return or by an exception, every
\* sub-file read handle that was opened and the master write handle, if
\* opened, have been closed.
C2_HandlesReleasedOnEveryExit ==
    pc \in {"done", "failed"} =>
        /\ AllHandlesClosed(probe_lfp_ios)
        /\ io # "open"

\* C3: when a probe fails, in the per-probe loop or in the linking loop, the
\* session write is over: the master file is never created, no result is
\* returned, and no later probe is processed.
C3_ProbeFailureAbortsSession ==
    (error.some /\ error.value.at \in {"probe", "link"}) =>
        /\ pc = "failed"
        /\ files.master = "absent"
        /\ io = "none"
        /\ result = None
        /\ i = error.value.probe
        /\ error.value.at = "probe" =>
              /\ Len(channel_tables) \in
                     {error.value.probe - 1, error.value.probe}
              /\ Len(unit_tables) = Len(channel_tables)
              /\ files.subfiles =
                   {probes[k].lfp.output_path : k \in 1..(error.value.probe - 1)}
              /\ files.partial \subseteq
                   {probes[error.value.probe].lfp.output_path}
              /\ lfp_links = <<>>
        /\ error.value.at = "link" =>
              /\ Len(lfp_links) = error.value.probe - 1
              /\ Len(probe_outputs) = error.value.probe - 1

\* the second of two probes failed in the per-probe loop
C3_Witness ==
    /\ error.some
    /\ error.value.at = "probe"
    /\ error.value.probe = 2
    /\ Len(probes) = MaxProbes
    /\ pc = "failed"

\* two probes processed so far carry the same global unit id
DuplicateUnitIds ==
    \E a, b \in 1..Len(unit_tables) :
        /\ a # b
        /\ \E x \in 1..NRows(unit_tables[a]), y \in 1..NRows(unit_tables[b]) :
              unit_tables[a].data[x].id = unit_tables[b].data[y].id

\* C4: when two probes hold units with the same global unit id, building
\* the global unit table fails: no unit table with the duplicate rows
\* exists, and every processed probe's units still have that probe's own
\* spike times and waveforms.
C4_DuplicateUnitIdsAreFatal ==
    DuplicateUnitIds =>
        /\ ~units_table.some
        /\ \A k \in 1..Len(unit_tables) :
             \A e \in 1..Len(ProbeSpikeTimes(probes[k]).value) :
                /\ DictGet(spike_times, ProbeSpikeTimes(probes[k]).value[e][1])
                     = ProbeSpikeTimes(probes[k]).value[e][2]
                /\ DictGet(mean_waveforms,
                           ProbeWaveforms(probes[k]).value[e][1])
                     = ProbeWaveforms(probes[k]).value[e][2]

\* C10: a returned result has nwb_path equal to the output path and one
\* probe_outputs entry per input probe, in input order, with the probe's id
\* and the probe's LFP sub-file path; by then the master file and every
\* listed sub-file are written.
C10_ResultListsEveryProbeAfterWrites ==
    result.some =>
        /\ result.value.nwb_path = OutputPath
        /\ result.value.probe_outputs =
             [k \in 1..Len(probes) |->
                 [id |-> probes[k].id,
                  nwb_path |-> probes[k].lfp.output_path]]
        /\ files.master = "written"
        /\ \A k \in 1..Len(result.value.probe_outputs) :
             result.value.probe_outputs[k].nwb_path \in files.subfiles

\* a result for MaxProbes probes with different ids was returned
C10_Witness ==
    /\ result.some
    /\ Len(probes) = MaxProbes
    /\ probes[1].id # probes[2].id
    /\ Len(result.value.probe_outputs) = MaxProbes

\* the 0-based positions, in the concatenated electrode table, of the rows
\* that came from the k-th probe's channel table
OwnRows(k) ==
    LET start == SeqSum([j \in 1..(k - 1) |-> NRows(channel_tables[j])])
    IN start..(start + NRows(channel_tables[k]) - 1)

DistinctProbeIds ==
    \A a, b \in 1..Len(probes) : probes[a].id = probes[b].id => a = b

\* the master table has a row for local channel c of probe id p
HasRow(p, c) ==
    \E r \in 1..NRows(electrodes_table.value) :
        /\ electrodes_table.value.data[r].probe_id = p
        /\ electrodes_table.value.data[r].local_index = c

\* some probe's LFP channel subset names a channel without a row
SomeChannelWithoutRow ==
    \E k \in 1..Len(probes) :
        \E c \in 1..Len(probes[k].lfp.input_channels) :
            ~HasRow(probes[k].id, probes[k].lfp.input_channels[c])

\* C13: the k-th linking call is for the k-th probe p, and its row indices
\* follow p's LFP channel subset one for one: the index for local channel c
\* is a valid 0-based row position of the master electrode table, and that
\* row has probe_id = p and local_index = c (with distinct probe ids it is one
\* of the rows p's own channel table contributed).  If some probe's subset
\* names a channel without a row, the master file is never opened or
\* written and nothing is returned.
C13_LfpLinksResolveToOwnRows ==
    /\ \A k \in 1..Len(lfp_links) :
           LET probe == probes[k]
               et == electrodes_table.value
               idx == lfp_links[k].electrode_table_indices
           IN /\ lfp_links[k].probe_id = probe.id
              /\ Len(idx) = Len(probe.lfp.input_channels)
              /\ \A c \in 1..Len(idx) :
                     /\ idx[c] \in 0..(NRows(et) - 1)
                     /\ et.data[idx[c] + 1].probe_id = probe.id
                     /\ et.data[idx[c] + 1].local_index =
                            probe.lfp.input_channels[c]
                     /\ DistinctProbeIds => idx[c] \in OwnRows(k)
    /\ (electrodes_table.some /\ SomeChannelWithoutRow) =>
           /\ pc \in {"ragged", "running", "open_ios", "link", "failed"}
           /\ files.master = "absent"
           /\ io = "none"
           /\ result = None

\* two probes with different ids were both linked with the subset [1, 0]:
\* the second probe's indices are its own two rows, in that order, and the
\* session is written
C13_Witness ==
    /\ pc = "done"
    /\ Len(probes) = 2
    /\ probes[1].id # probes[2].id
    /\ probes[2].lfp.input_channels = <<1, 0>>
    /\ Len(lfp_links) = 2
    /\ lfp_links[2].electrode_table_indices =
           <<NRows(channel_tables[1]) + 1, NRows(channel_tables[1])>>

\* a probe's subset named a channel without a row and linking stopped there
C13_AbortReached ==
    /\ pc = "failed"
    /\ error.some
    /\ error.value.class = "KeyError"
    /\ electrodes_table.some
    /\ SomeChannelWithoutRow

(***************************************************************************)
(* EcephysProjectCache (ecephys_project_cache.py)                          *)
(*                                                                         *)
(* A path is a sequence of segments and a segment a sequence of tokens: a  *)
(* literal piece of text, the placeholder "%d", or (after formatting) one  *)
(* character of a formatted number.                                        *)
(***************************************************************************)
MaxSessionId == 11
MaxCalls == 2

SESSIONS_KEY == "sessions"

SESSION_DIR_KEY == "session_data"

SESSION_NWB_KEY == "session_nwb"

DigitChars == <<"0", "1", "2", "3", "4", "5", "6", "7", "8", "9">>

RECURSIVE Digits(_)
Digits(n) ==
    IF n < 10 THEN <<DigitChars[n + 1]>>
    ELSE Digits(n \div 10) \o <<DigitChars[(n % 10) + 1]>>

\* Python's '%d' % n for an integer n
FormatD(n) == IF n < 0 THEN <<"-">> \o Digits(-n) ELSE Digits(n)

RECURSIVE CountD(_)
CountD(tokens) ==
    IF tokens = <<>> THEN 0
    ELSE (IF Head(tokens) = "%d" THEN 1 ELSE 0) + CountD(Tail(tokens))

RECURSIVE FormatTokens(_, _)
FormatTokens(tokens, args) ==
    IF tokens = <<>> THEN <<>>
    ELSE IF Head(tokens) = "%d"
         THEN FormatD(Head(args)) \o FormatTokens(Tail(tokens), Tail(args))
         ELSE <<Head(tokens)>> \o FormatTokens(Tail(tokens), args)

RECURSIVE FormatSegments(_, _)
FormatSegments(segments, args) ==
    IF segments = <<>> THEN <<>>
    ELSE <<FormatTokens(Head(segments), args)>>
         \o FormatSegments(Tail(segments),
                SubSeq(args, CountD(Head(segments)) + 1, Len(args)))

\* path_spec % args: the placeholders take the arguments left to right, and
\* the two counts have to agree
FormatPath(path_spec, args) ==
    IF CountD(Flatten(path_spec)) > Len(args)
    THEN Raised("TypeError", "not enough arguments for format string")
    ELSE IF CountD(Flatten(path_spec)) < Len(args)
    THEN Raised("TypeError",
                "not all arguments converted during string formatting")
    ELSE Ok(FormatSegments(path_spec, args))

\* the paths the generic cache registers: the directory of the manifest
BaseManifestPaths ==
    DictSet(EmptyDict, "BASEDIR", [spec |-> <<<<"base">>>>])

\* ManifestBuilder.add_path: the spec is joined to the parent's spec
add_path(manifest_builder, key, spec, parent_key) ==
    DictSet(manifest_builder, key,
            [spec |-> Append(DictGet(manifest_builder, parent_key).spec,
                             spec)])

\* lines 38-44 with the per-session file registered next to the session
\* directories instead of inside them
add_manifest_paths_flat ==
    add_path(
        add_path(
            add_path(BaseManifestPaths,
                     SESSIONS_KEY, <<"sessions.csv">>, "BASEDIR"),
            SESSION_DIR_KEY, <<"session_", "%d">>, "BASEDIR"),
        SESSION_NWB_KEY, <<"session_", "%d", ".nwb">>, "BASEDIR")

\* lines 31-46: the manifest after add_manifest_paths
add_manifest_paths ==
    add_path(
        add_path(
            add_path(BaseManifestPaths,
                     SESSIONS_KEY, <<"sessions.csv">>, "BASEDIR"),
            SESSION_DIR_KEY, <<"session_", "%d">>, "BASEDIR"),
        SESSION_NWB_KEY, <<"session_", "%d", ".nwb">>, SESSION_DIR_KEY)

\* Cache.get_cache_path(None, manifest_key, *args): the manifest's path for
\* the key, formatted with the arguments
get_cache_path(manifest_key, args) ==
    FormatPath(DictGet(add_manifest_paths, manifest_key).spec, args)

\* line 53-54
filter_sessions(sessions) == sessions

\* what a fetch capability can answer: a value, or an exception of its own
FetchOutcomes ==
    {Ok("fetched_a"), Ok("fetched_b"), Raised("IOError", "fetch failed")}

\* lines 22-25, given the capability's answer: the call made to the
\* capability (if any) and the outcome of get_sessions
get_sessions(answer) ==
    LET path == get_cache_path(SESSIONS_KEY, <<>>)
    IN IF path.status = "raised" THEN [fetches |-> <<>>, outcome |-> path]
       ELSE [fetches |-> <<[method |-> "get_sessions",
                            args |-> <<path.value>>,
                            answer |-> answer]>>,
             outcome |-> IF answer.status = "ok"
                         THEN Ok(filter_sessions(answer.value))
                         ELSE answer]

\* lines 27-29
get_session_data(session_id, answer) ==
    LET path == get_cache_path(SESSION_NWB_KEY, <<session_id, session_id>>)
    IN IF path.status = "raised" THEN [fetches |-> <<>>, outcome |-> path]
       ELSE [fetches |-> <<[method |-> "get_session_data",
                            args |-> <<path.value, session_id>>,
                            answer |-> answer]>>,
             outcome |-> answer]

SessionIdsOfCache == 0..MaxSessionId

InitCache ==
    /\ SessionIdle
    /\ call = [fn |-> "EcephysProjectCache", requests |-> <<>>,
               fetch_log |-> <<>>, returns |-> <<>>]
    /\ ret = Pending

\* one request served: the request, what it made the capability do and what
\* it gave back are appended to the history
Served(request, done) ==
    /\ call' = [call EXCEPT !.requests = Append(@, request),
                            !.fetch_log = Append(@, done.fetches),
                            !.returns = Append(@, done.outcome)]
    /\ ret' = done.outcome
    /\ UNCHANGED sessionVars

CallGetSessions ==
    /\ call.fn = "EcephysProjectCache"
    /\ Len(call.requests) < MaxCalls
    /\ \E answer \in FetchOutcomes :
           Served([method |-> "get_sessions"], get_sessions(answer))

CallGetSessionData ==
    /\ call.fn = "EcephysProjectCache"
    /\ Len(call.requests) < MaxCalls
    /\ \E session_id \in SessionIdsOfCache, answer \in FetchOutcomes :
           Served([method |-> "get_session_data", session_id |-> session_id],
                  get_session_data(session_id, answer))

NextCache == CallGetSessions \/ CallGetSessionData

SpecCache == InitCache /\ [][NextCache]_vars

\* <base>/sessions.csv
SessionsCsvPath == <<<<"base">>, <<"sessions.csv">>>>

\* <base>/session_<id>/session_<id>.nwb
SessionNwbPath(id) ==
    <<<<"base">>, <<"session_">> \o FormatD(id),
      <<"session_">> \o FormatD(id) \o <<".nwb">>>>

\* the k-th request of the history was delegated exactly once, to the
\* method of its own kind, with the destination path of its kind and id,
\* and got back what the capability answered
DelegatedRight(k) ==
    LET request == call.requests[k]
        fetches == call.fetch_log[k]
    IN /\ Len(fetches) = 1
       /\ fetches[1].method = request.method
       /\ call.returns[k] = fetches[1].answer
       /\ IF request.method = "get_sessions"
          THEN fetches[1].args = <<SessionsCsvPath>>
          ELSE fetches[1].args =
                   <<SessionNwbPath(request.session_id), request.session_id>>

\* the destination path of the k-th request (its only fetch)
PathOf(k) == call.fetch_log[k][1].args[1]

SameRequest(j, k) == call.requests[j] = call.requests[k]

\* C11: after any sequence of get_sessions and get_session_data calls, each
\* call delegated exactly once to the capability method of its kind, with
\* <base>/sessions.csv or <base>/session_<id>/session_<id>.nwb as the
\* destination, and returned the capability's answer unchanged; two calls
\* got the same destination path exactly when they are the same kind of
\* request for the same session id.
C11_CachePathsDeterministicAndDelegated ==
    call.fn = "EcephysProjectCache" =>
        /\ Len(call.fetch_log) = Len(call.requests)
        /\ \A k \in 1..Len(call.requests) : DelegatedRight(k)
        /\ \A j, k \in 1..Len(call.requests) :
               (PathOf(j) = PathOf(k)) <=> SameRequest(j, k)
        /\ Len(call.requests) > 0 => ret = call.returns[Len(call.returns)]

\* session 1 and session 11 were both fetched, after which the history
\* holds two different destination paths and the last answer was returned
C11_Witness ==
    /\ call.fn = "EcephysProjectCache"
    /\ Len(call.requests) = 2
    /\ call.requests[1] = [method |-> "get_session_data", session_id |-> 1]
    /\ call.requests[2] = [method |-> "get_session_data", session_id |-> 11]
    /\ ret = Ok("fetched_b")

(***************************************************************************)
(* read_stimulus_table (lines 63-92)                                       *)
(*                                                                         *)
(* A path is the sequence of its tokens: "/", "." or a run of other        *)
(* characters.  A csv file is a header (column names) and rows of values;  *)
(* the table read from it is [index, columns, data] with the cells of a    *)
(* row held by position, since two columns may carry the same name.        *)
(***************************************************************************)
MaxPathLen == 4
MaxStimColumns == 2
MaxStimRows == 1

\* lines 25-28
STIM_TABLE_RENAMES_MAP ==
    DictSet(DictSet(EmptyDict, "Start", "start_time"), "End", "stop_time")

\* str.rfind on the tokens: the last position of token t, 0 if there is none
RFind(p, t) ==
    IF \E k \in 1..Len(p) : p[k] = t
    THEN CHOOSE k \in 1..Len(p) :
             p[k] = t /\ \A j \in (k + 1)..Len(p) : p[j] # t
    ELSE 0

\* os.path.splitext: the extension starts at the last dot of the last
\* component, unless only dots precede it there
splitext(p) ==
    LET sepIndex == RFind(p, "/")
        dotIndex == RFind(p, ".")
    IN IF /\ dotIndex > sepIndex
          /\ \E k \in (sepIndex + 1)..(dotIndex - 1) : p[k] # "."
       THEN <<SubSeq(p, 1, dotIndex - 1), SubSeq(p, dotIndex, Len(p))>>
       ELSE <<p, <<>>>>

\* how many of the first k names of header equal name
Occurrences(header, k, name) ==
    Cardinality({j \in 1..k : header[j] = name})

\* pd.read_csv on an existing file: a repeated header name gets the suffix
\* .1, .2, ...; the rows are numbered from 0
read_csv(file) ==
    [index |-> [r \in 1..Len(file.rows) |-> r - 1],
     columns |-> [k \in 1..Len(file.header) |->
                     LET seen == Occurrences(file.header, k - 1,
                                             file.header[k])
                     IN IF seen = 0 THEN file.header[k]
                        ELSE file.header[k] \o "." \o DigitChars[seen + 1]],
     data |-> file.rows]

\* the renames applied one after the other, each to the names the previous
\* ones produced
RECURSIVE RenameInTurn(_, _)
RenameInTurn(name, map) ==
    IF map = <<>> THEN name
    ELSE RenameInTurn(IF name = map[1][1] THEN map[1][2] ELSE name,
                      Tail(map))

\* DataFrame.rename(columns=map), one label: looked up once in the map
RenameLabel(name, map) ==
    IF DictHas(map, name) THEN DictGet(map, name) ELSE name

\* DataFrame.rename(columns=map, index={}): a new frame
Rename(df, map) ==
    [df EXCEPT !.columns = [k \in 1..Len(df.columns) |->
                               RenameLabel(df.columns[k], map)]]

\* lines 63-92.  file is the content found at path, None if there is no such
\* file.  The outcome comes with the list of the paths that were read.
read_stimulus_table(path, file, column_renames_map) ==
    LET map == IF column_renames_map.some THEN column_renames_map.value
               ELSE STIM_TABLE_RENAMES_MAP
        ext == splitext(path)[2]
    IN IF ext = <<".", "csv">>
       THEN [reads |-> <<path>>,
             outcome |-> IF file.some
                         THEN Ok(Rename(read_csv(file.value), map))
                         ELSE Raised("FileNotFoundError", path)]
       ELSE [reads |-> <<>>,
             outcome |-> Raised("IOError",
                                <<"unrecognized stimulus table extension: ">>
                                \o ext)]

PathTokens == {"/", ".", "csv", "CSV", "stim"}

StimPaths(max_len) ==
    {p \in SeqsUpTo(PathTokens, max_len) :
        /\ p # <<>>
        /\ \A k \in 1..(Len(p) - 1) :
               p[k] \in {"/", "."} \/ p[k + 1] \in {"/", "."}}

StimColumnNames == {"Start", "End", "x"}

\* the cell of row r under the k-th header name
StimCell(r, k) == 10 * r + k

StimFiles(max_columns, max_rows) ==
    {[header |-> h, rows |-> [r \in 1..n |-> [k \in 1..Len(h) |->
                                                 StimCell(r, k)]]] :
        h \in SeqsUpTo(StimColumnNames, max_columns) \ {<<>>},
        n \in 0..max_rows}

StimRenameMaps ==
    {STIM_TABLE_RENAMES_MAP,
     DictSet(DictSet(EmptyDict, "Start", "End"), "End", "x"),
     DictSet(EmptyDict, "x", "Start")}

StimCalls(max_len, max_columns, max_rows) ==
    {[fn |-> "read_stimulus_table", path |-> p, file |-> f,
      column_renames_map |-> m] :
        p \in StimPaths(max_len),
        f \in Optional(StimFiles(max_columns, max_rows)),
        m \in Optional(StimRenameMaps)}

InitStimulus ==
    /\ SessionIdle
    /\ call \in StimCalls(MaxPathLen, MaxStimColumns, MaxStimRows)
    /\ ret = Pending

CallReadStimulusTable ==
    /\ call.fn = "read_stimulus_table"
    /\ ret = Pending
    /\ ret' = read_stimulus_table(call.path, call.file,
                                  call.column_renames_map)
    /\ UNCHANGED <<call, sessionVars>>

NextStimulus == CallReadStimulusTable

SpecStimulus == InitStimulus /\ [][NextStimulus]_vars

StimCallDone == call.fn = "read_stimulus_table" /\ ret # Pending

\* the path names a file whose name ends in ".csv" with something other
\* than dots before that dot
HasCsvExtension(p) ==
    /\ Len(p) >= 3
    /\ p[Len(p)] = "csv"
    /\ p[Len(p) - 1] = "."
    /\ \E k \in 1..(Len(p) - 2) :
           /\ p[k] \notin {".", "/"}
           /\ \A j \in k..(Len(p) - 2) : p[j] # "/"

\* the name a column of the table gets under the call's rename map
RenamedAs(name) ==
    IF call.column_renames_map.some
    THEN LET map == call.column_renames_map.value
         IN IF \E k \in 1..Len(map) : map[k][1] = name
            THEN map[CHOOSE k \in 1..Len(map) : map[k][1] = name][2]
            ELSE name
    ELSE IF name = "Start" THEN "start_time"
         ELSE IF name = "End" THEN "stop_time"
         ELSE name

\* C12: read_stimulus_table raises IOError, having read nothing, whenever
\* the extension of the path is not ".csv"; for a ".csv" path (of an
\* existing file) it reads that file once and returns its table with each
\* column name replaced as the rename map says (by default "Start" becomes
\* "start_time" and "End" becomes "stop_time"), every other column name,
\* the row labels and every cell unchanged.
C12_StimulusTableExtensionAndRenames ==
    StimCallDone =>
        IF ~HasCsvExtension(call.path)
        THEN /\ ret.outcome.status = "raised"
             /\ ret.outcome.error = "IOError"
             /\ ret.reads = <<>>
        ELSE /\ ret.reads = <<call.path>>
             /\ call.file.some =>
                  /\ ret.outcome.status = "ok"
                  /\ LET table == read_csv(call.file.value)
                         out == ret.outcome.value
                     IN /\ out.data = call.file.value.rows
                        /\ out.index = table.index
                        /\ Len(out.columns) = Len(table.columns)
                        /\ \A k \in 1..Len(table.columns) :
                               out.columns[k] = RenamedAs(table.columns[k])

\* stim.csv with the columns Start and x and one row was read with the
\* default map: the table came back with the columns start_time and x
C12_Witness ==
    /\ StimCallDone
    /\ call.path = <<"stim", ".", "csv">>
    /\ call.column_renames_map = None
    /\ call.file.some
    /\ call.file.value.header = <<"Start", "x">>
    /\ Len(call.file.value.rows) = 1
    /\ ret.outcome.status = "ok"
    /\ ret.outcome.value.columns = <<"start_time", "x">>

=============================================================================
